---- MODULE Spec2Model ----
(***************************************************************************)
(* A model of build.py of numpy-typing-compat: the naming scheme of the    *)
(* generated distributions, the parser of the published file names, the    *)
(* build of one project and the run of main over the project matrix.       *)
(* File names are sequences of one-character strings, so that formatting   *)
(* and parsing are computed and not assumed to be inverse.                 *)
(***************************************************************************)
EXTENDS Integers, Sequences, FiniteSets, TLC

VARIABLES
    BUILD,          \* the build number of this run (module global, from today's date)
    args,           \* the command line flags given to main
    pc,             \* where main is: start, build, decide, cleanup, done, raised
    err,            \* the exception that ended the run, [type |-> "", line |-> 0] if none
    queried,        \* whether the remote index was requested
    latest_hashes,  \* main's latest_hashes: DistInfo of {Version: <<build, sha256>>}
    i,              \* index into PROJECTS of the project of the current iteration
    completed,      \* the last completed subprocess of Project.build
    scanned,        \* per project: whether build reached the scan of stderr
    uv_calls,       \* per project: how many times `uv build` was invoked
    classified,     \* build's locals path_sdist / path_wheel after classification
    hashes,         \* main's local `hashes` (project.dist_hashes) of the last decision
    decisions,      \* per project and kind: NONE, KEEP (else branch) or DISCARD (unlink)
    dist,           \* the files in DIR_DIST
    stdout,         \* the paths main printed to stdout
    projects_dir,   \* the project directories under DIR_PROJECTS
    published,      \* the published files the index lists, as (kind, version, build, sha256)
    fetched,        \* outcome of _fetch_latest_release_hashes on the index of published
    self,           \* the project whose names are formatted
    fname,          \* the file name formatted for self
    parsed          \* the parse of fname

vars == <<BUILD, args, pc, err, queried, latest_hashes, i, completed, scanned,
          uv_calls, classified, hashes, decisions, dist, stdout, projects_dir,
          published, fetched, self, fname, parsed>>

(***************************************************************************)
(* Bounds of the model.                                                    *)
(***************************************************************************)
\* the date the model runs on, as YYYYMMDD
Today == 20250725
\* the index of a main run lists at most this many files
MaxIndex == 2
\* the index given to _fetch_latest_release_hashes alone lists at most this many
MaxFiles == 3
\* stderr of `uv build` holds at most this many success markers
MaxMarkers == 3
\* majors and minors of the versions whose names are formatted and parsed
MaxMajor == 10
MaxMinor == 12

Kinds == {"sdist", "wheel"}
Hashes == {"h1", "h2"}
ReturnCodes == {0, 1}
Flags == {"--always", "--quiet", "--silent", "--keep"}

(***************************************************************************)
(* Strings.                                                                *)
(***************************************************************************)
NAME == <<"n","u","m","p","y","_","t","y","p","i","n","g","_","c","o","m","p","a","t">>

Digits == <<"0","1","2","3","4","5","6","7","8","9">>

IsDigit(c) == c \in {"0","1","2","3","4","5","6","7","8","9"}

DigitVal(c) == (CHOOSE d \in 1..10 : Digits[d] = c) - 1

\* str(n) of a non-negative int, as an f-string formats it
RECURSIVE Str(_)
Str(n) == IF n < 10 THEN <<Digits[n + 1]>>
          ELSE Str(n \div 10) \o <<Digits[(n % 10) + 1]>>

\* int(s) of a string of digits
RECURSIVE ToInt(_)
ToInt(s) == IF Len(s) = 0 THEN 0
          ELSE ToInt(SubSeq(s, 1, Len(s) - 1)) * 10 + DigitVal(s[Len(s)])

StartsWithAt(s, p, lit) ==
    /\ Len(s) >= p + Len(lit) - 1
    /\ SubSeq(s, p, p + Len(lit) - 1) = lit

EndsWith(s, lit) ==
    /\ Len(s) >= Len(lit)
    /\ SubSeq(s, Len(s) - Len(lit) + 1, Len(s)) = lit

\* Path.suffix: the last dot of the name and what follows it
Suffix(s) ==
    LET dots == {p \in 1..Len(s) : s[p] = "."}
    IN  IF dots = {} THEN <<>>
        ELSE LET last == CHOOSE p \in dots : \A q \in dots : q <= p
             IN  SubSeq(s, last, Len(s))

WHL == <<".","w","h","l">>
SDIST_TAIL == <<".","t","a","r",".","g","z">>
WHEEL_TAIL == <<"-","p","y","3","-","n","o","n","e","-","a","n","y",".","w","h","l">>

(***************************************************************************)
(* Version, DistInfo, Project.                                             *)
(***************************************************************************)
Version(major, minor) == <<major, minor>>

\* Version.__str__
VersionStr(v) == Str(v[1]) \o <<".">> \o Str(v[2])

\* the order of Version, a NamedTuple: lexicographic on (major, minor)
VersionLt(a, b) == a[1] < b[1] \/ (a[1] = b[1] /\ a[2] < b[2])

DistInfo(s, w) == [sdist |-> s, wheel |-> w]

Project(np_range, py_range) == [np_range |-> np_range, py_range |-> py_range]

\* the naming scheme for a version and a build number: f"{NAME}-{np_start}.{build}"
\* followed by the ending of the kind
FileName(kind, v, build) ==
    NAME \o <<"-">> \o VersionStr(v) \o <<".">> \o Str(build)
         \o (IF kind = "wheel" THEN WHEEL_TAIL ELSE SDIST_TAIL)

\* Project.version
version(p) == VersionStr(p.np_range[1]) \o <<".">> \o Str(BUILD)

\* Project.name
name(p) == NAME \o <<"-">> \o version(p)

\* Project.dist_paths, each path by its file name in DIR_DIST
dist_paths(p) == DistInfo(name(p) \o SDIST_TAIL, name(p) \o WHEEL_TAIL)

\* a matrix with a gap: the second entry starts at 1.24, after the stop of the first
PROJECTS_gap == <<
    Project(<<Version(1, 22), Version(1, 23)>>, <<Version(3, 8), Version(3, 11)>>),
    Project(<<Version(1, 24), Version(1, 25)>>, <<Version(3, 8), Version(3, 12)>>),
    Project(<<Version(1, 25), Version(2, 0)>>, <<Version(3, 9), Version(3, 13)>>),
    Project(<<Version(2, 0), Version(2, 1)>>, <<Version(3, 9), Version(3, 13)>>),
    Project(<<Version(2, 1), Version(2, 2)>>, <<Version(3, 10), Version(3, 14)>>),
    Project(<<Version(2, 2), Version(2, 3)>>, <<Version(3, 10), Version(3, 14)>>),
    Project(<<Version(2, 3), Version(2, 4)>>, <<Version(3, 11), Version(3, 15)>>) >>

PROJECTS == <<
    Project(<<Version(1, 22), Version(1, 23)>>, <<Version(3, 8), Version(3, 11)>>),
    Project(<<Version(1, 23), Version(1, 25)>>, <<Version(3, 8), Version(3, 12)>>),
    Project(<<Version(1, 25), Version(2, 0)>>, <<Version(3, 9), Version(3, 13)>>),
    Project(<<Version(2, 0), Version(2, 1)>>, <<Version(3, 9), Version(3, 13)>>),
    Project(<<Version(2, 1), Version(2, 2)>>, <<Version(3, 10), Version(3, 14)>>),
    Project(<<Version(2, 2), Version(2, 3)>>, <<Version(3, 10), Version(3, 14)>>),
    Project(<<Version(2, 3), Version(2, 4)>>, <<Version(3, 11), Version(3, 15)>>) >>

(***************************************************************************)
(* _fetch_latest_release_hashes.                                           *)
(***************************************************************************)
NoError == [type |-> "", line |-> 0]

Raise(type, line) == [type |-> type, line |-> line]

\* the build numbers the parser accepts are above this one
MinBuild == 20250600

\* the length of the longest run of digits of s that starts at p
RECURSIVE DigitRun(_, _)
DigitRun(s, p) == IF p <= Len(s) /\ IsDigit(s[p]) THEN 1 + DigitRun(s, p + 1) ELSE 0

NoMatch == [matched |-> FALSE, major |-> <<>>, minor |-> <<>>, build |-> <<>>]

\* the major group (\d): how many digits of the run that starts at p it takes
MajorWidth(s, p) == IF DigitRun(s, p) >= 1 THEN 1 ELSE 0

\* re.match(rf"{NAME}-(\d)\.(\d+)\.(\d+){tail}", s): anchored at the start only;
\* every group is followed by a character that is no digit, so a group of \d+
\* can only be the whole run of digits
Match(s, tail) ==
    LET p1 == Len(NAME) + 2
        w1 == MajorWidth(s, p1)
        p2 == p1 + w1 + 1
        w2 == DigitRun(s, p2)
        p3 == p2 + w2 + 1
        w3 == DigitRun(s, p3)
    IN  IF /\ StartsWithAt(s, 1, NAME \o <<"-">>)
           /\ w1 >= 1
           /\ StartsWithAt(s, p1 + w1, <<".">>)
           /\ w2 >= 1
           /\ StartsWithAt(s, p2 + w2, <<".">>)
           /\ w3 >= 1
           /\ StartsWithAt(s, p3 + w3, tail)
        THEN [matched |-> TRUE,
              major |-> SubSeq(s, p1, p1 + w1 - 1),
              minor |-> SubSeq(s, p2, p2 + w2 - 1),
              build |-> SubSeq(s, p3, p3 + w3 - 1)]
        ELSE NoMatch

\* the body of the loop up to the asserts: the kind by the ending of the name,
\* the match of the kind's pattern, the version and the build number
ParseFile(s) ==
    LET kind == IF EndsWith(s, WHL) THEN "wheel" ELSE "sdist"
        m == Match(s, IF kind = "wheel" THEN WHEEL_TAIL ELSE SDIST_TAIL)
    IN  [kind |-> kind,
         matched |-> m.matched,
         np_version |-> IF m.matched THEN Version(ToInt(m.major), ToInt(m.minor)) ELSE <<>>,
         build |-> IF m.matched THEN ToInt(m.build) ELSE 0]

Put(d, k, v) == [x \in (DOMAIN d) \cup {k} |-> IF x = k THEN v ELSE d[x]]

Get(d, k, default) == IF k \in DOMAIN d THEN d[k] ELSE default

\* a loop that lets every file replace the entry, whatever its build number
SupersedesAny(target, np_version, build) == TRUE

\* whether the file replaces what the target holds for its version
Supersedes(target, np_version, build) ==
    np_version \notin DOMAIN target \/ target[np_version][1] < build

\* one iteration of the loop over data["files"]
Retain(acc, file) ==
    LET f == ParseFile(file.filename)
    IN  IF acc.err # NoError THEN acc
        ELSE IF ~f.matched THEN [acc EXCEPT !.err = Raise("AssertionError", 281)]
        ELSE IF ~(f.build > MinBuild) THEN [acc EXCEPT !.err = Raise("AssertionError", 285)]
        ELSE IF Supersedes(acc[f.kind], f.np_version, f.build)
        THEN [acc EXCEPT ![f.kind] = Put(@, f.np_version, <<f.build, file.sha256>>)]
        ELSE acc

RECURSIVE RetainAll(_, _)
RetainAll(acc, files) ==
    IF Len(files) = 0 THEN acc
    ELSE RetainAll(Retain(acc, Head(files)), Tail(files))

\* _fetch_latest_release_hashes on the response of the index
fetch_latest_release_hashes(response) ==
    IF response.status # 200 THEN [err |-> Raise("IOError", 71), sdist |-> <<>>, wheel |-> <<>>]
    ELSE IF ~response.has_files THEN [err |-> Raise("ValueError", 263), sdist |-> <<>>, wheel |-> <<>>]
    ELSE RetainAll([err |-> NoError, sdist |-> <<>>, wheel |-> <<>>], response.files)


(***************************************************************************)
(* The inputs: what the index lists, what the build tool reports.          *)
(***************************************************************************)
Range(s) == {s[n] : n \in 1..Len(s)}

SeqsUpTo(S, n) == UNION {[1..m -> S] : m \in 0..n}

\* the index names every file once
DistinctNames(l) ==
    \A m, n \in 1..Len(l) :
        m # n => <<l[m].kind, l[m].version, l[m].build>> # <<l[n].kind, l[n].version, l[n].build>>

PublishedLists(versions, builds, n) ==
    {l \in SeqsUpTo([kind : Kinds, version : versions, build : builds, sha256 : Hashes], n) :
        DistinctNames(l)}

\* the "files" of the index for a list of published files, each named by the
\* naming scheme of the run that published it
Render(l) ==
    [n \in 1..Len(l) |->
        [filename |-> FileName(l[n].kind, l[n].version, l[n].build), sha256 |-> l[n].sha256]]

Ok(files) == [status |-> 200, has_files |-> TRUE, files |-> files]

STRAY_WHEEL == <<"x",".","w","h","l">>
STRAY_SDIST == <<"x",".","t","a","r",".","g","z">>

N == Len(PROJECTS)

NoCommand == [cmd |-> "", returncode |-> 0, stderr |-> <<>>]

\* fetched holds the outcome once the function has ended
NotFetched == <<>>

NotFormatted == [kind |-> "", text |-> <<>>]

NotParsed == [kind |-> "", matched |-> FALSE, np_version |-> <<>>, build |-> 0]

MainIdle ==
    /\ args = {}
    /\ pc = "idle"
    /\ err = NoError
    /\ queried = FALSE
    /\ latest_hashes = DistInfo(<<>>, <<>>)
    /\ i = 1
    /\ completed = NoCommand
    /\ scanned = [p \in 1..N |-> FALSE]
    /\ uv_calls = [p \in 1..N |-> 0]
    /\ classified = DistInfo(<<>>, <<>>)
    /\ hashes = DistInfo("", "")
    /\ decisions = [p \in 1..N |-> [k \in Kinds |-> "NONE"]]
    /\ dist = {}
    /\ stdout = <<>>
    /\ projects_dir = {}

FetchIdle == published = <<>> /\ fetched = NotFetched

NamesIdle == self = PROJECTS[1] /\ fname = NotFormatted /\ parsed = NotParsed

mainVars == <<args, pc, err, queried, latest_hashes, i, completed, scanned, uv_calls,
              classified, hashes, decisions, dist, stdout, projects_dir>>

fetchVars == <<published, fetched>>

namesVars == <<self, fname, parsed>>

(***************************************************************************)
(* SpecNames: a file name is formatted for a project and parsed back.      *)
(***************************************************************************)
NameBuilds == {MinBuild + 1, Today}

NameProjects ==
    {Project(<<Version(a, b), Version(a, b + 1)>>, <<Version(3, 8), Version(3, 11)>>) :
        a \in 0..MaxMajor, b \in 0..MaxMinor}

InitNames ==
    /\ BUILD \in NameBuilds
    /\ self \in NameProjects
    /\ fname = NotFormatted
    /\ parsed = NotParsed
    /\ MainIdle
    /\ FetchIdle

FormatAndParse(kind) ==
    /\ fname' = [kind |-> kind, text |-> dist_paths(self)[kind]]
    /\ parsed' = ParseFile(fname'.text)
    /\ UNCHANGED <<BUILD, self, mainVars, fetchVars>>

FormatSdist == FormatAndParse("sdist")

FormatWheel == FormatAndParse("wheel")

NextNames == FormatSdist \/ FormatWheel

SpecNames == InitNames /\ [][NextNames]_vars

(***************************************************************************)
(* SpecFetch: _fetch_latest_release_hashes on an index.                    *)
(***************************************************************************)
FetchVersions == {Version(1, 22), Version(2, 0)}

FetchBuilds == {MinBuild, Today - 1, Today}

InitFetch ==
    /\ BUILD = Today
    /\ published \in PublishedLists(FetchVersions, FetchBuilds, MaxFiles)
    /\ fetched = NotFetched
    /\ MainIdle
    /\ NamesIdle

Fetch ==
    /\ fetched = NotFetched
    /\ fetched' = <<fetch_latest_release_hashes(Ok(Render(published)))>>
    /\ UNCHANGED <<BUILD, published, mainVars, namesVars>>

NextFetch == Fetch

SpecFetch == InitFetch /\ [][NextFetch]_vars


(***************************************************************************)
(* Project.build.                                                          *)
(***************************************************************************)
\* a _run_command without check_returncode
check_returncode_never(returncode) == FALSE

\* completed.check_returncode() of _run_command: whether it raises
check_returncode(returncode) == returncode # 0

\* a build that takes the paths by their position
swap_never(path_wheel) == FALSE

\* whether build swaps the two paths: the first is no wheel
swap(path_wheel) == Suffix(path_wheel) # WHL

\* path_wheel, path_sdist = paths, swapped when the first is no wheel
classify(paths) ==
    IF swap(paths[1]) THEN DistInfo(paths[1], paths[2]) ELSE DistInfo(paths[2], paths[1])

\* a build that asserts len(paths) >= 2
count_ok_atleast(paths) == Len(paths) >= 2

\* assert len(paths) == 2
count_ok(paths) == Len(paths) = 2

\* the verification of the build: the scan of stderr for the success markers
\* (stderr is given as the paths of its markers, in order), then the checks;
\* files are the files on disk
verify(p, stderr, files) ==
    IF \E n \in 1..Len(stderr) : stderr[n] \notin files
    THEN [err |-> Raise("AssertionError", 232), classified |-> DistInfo(<<>>, <<>>)]
    ELSE IF Len(stderr) = 0
    THEN [err |-> Raise("RuntimeError", 239), classified |-> DistInfo(<<>>, <<>>)]
    ELSE IF ~count_ok(stderr)
    THEN [err |-> Raise("AssertionError", 241), classified |-> DistInfo(<<>>, <<>>)]
    ELSE [err |-> IF classify(stderr).sdist # dist_paths(p).sdist
                  THEN Raise("AssertionError", 248)
                  ELSE IF classify(stderr).wheel # dist_paths(p).wheel
                  THEN Raise("AssertionError", 249)
                  ELSE NoError,
          classified |-> classify(stderr)]

\* Project.build: _create_project with its two ruff commands, `uv build`, the
\* verification. ruff are the exit codes of the ruff commands, rc and stderr
\* those of `uv build`, which has written the files its markers name
build(p, ruff, rc, stderr, files) ==
    IF \E n \in 1..2 : check_returncode(ruff[n])
    THEN [err |-> Raise("CalledProcessError", 94),
          completed |-> [cmd |-> "ruff", returncode |-> 1, stderr |-> <<>>],
          uv |-> 0, scanned |-> FALSE, written |-> {},
          classified |-> DistInfo(<<>>, <<>>)]
    ELSE IF check_returncode(rc)
    THEN [err |-> Raise("CalledProcessError", 94),
          completed |-> [cmd |-> "uv build", returncode |-> rc, stderr |-> stderr],
          uv |-> 1, scanned |-> FALSE, written |-> Range(stderr),
          classified |-> DistInfo(<<>>, <<>>)]
    ELSE [err |-> verify(p, stderr, files \cup Range(stderr)).err,
          completed |-> [cmd |-> "uv build", returncode |-> rc, stderr |-> stderr],
          uv |-> 1, scanned |-> TRUE, written |-> Range(stderr),
          classified |-> verify(p, stderr, files \cup Range(stderr)).classified]

(***************************************************************************)
(* main.                                                                   *)
(***************************************************************************)
\* a main that ignores --always
skip_query_never(a) == FALSE

\* "--always" in args
skip_query(a) == "--always" \in a

\* a main that compares no hashes: unchanged when the index lists the version
unchanged_if_listed(build_hashes, np_version, hash_) == np_version \in DOMAIN build_hashes

\* pypi_build, pypi_hash = build_hashes.get(np_version, (0, "")); pypi_hash == hash_
unchanged(build_hashes, np_version, hash_) == Get(build_hashes, np_version, <<0, "">>)[2] = hash_

\* what the iteration of a project prints to stdout: the paths of the new builds
printed(a, paths, verdict) ==
    IF "--silent" \in a THEN <<>>
    ELSE (IF verdict.sdist = "KEEP" THEN <<paths.sdist>> ELSE <<>>)
         \o (IF verdict.wheel = "KEEP" THEN <<paths.wheel>> ELSE <<>>)

Raised(e) ==
    /\ pc' = "raised"
    /\ err' = e

\* main up to its loop: the hashes of the latest releases, or none with --always
StartWith(responses) ==
    /\ pc = "start"
    /\ IF skip_query(args)
       THEN /\ latest_hashes' = DistInfo(<<>>, <<>>)
            /\ pc' = "build"
            /\ UNCHANGED <<queried, err>>
       ELSE \E response \in responses :
            \E r \in {fetch_latest_release_hashes(response)} :
                /\ queried' = TRUE
                /\ latest_hashes' = DistInfo(r.sdist, r.wheel)
                /\ IF r.err = NoError
                   THEN pc' = "build" /\ err' = err
                   ELSE Raised(r.err)
    /\ UNCHANGED <<BUILD, args, i, completed, scanned, uv_calls, classified, hashes,
                   decisions, dist, stdout, projects_dir, fetchVars, namesVars>>

\* what `uv build` may report for a project: its two files or nothing
Markers(p) == {<<>>, <<dist_paths(p).sdist, dist_paths(p).wheel>>}

Candidates(p) == {dist_paths(p).sdist, dist_paths(p).wheel, STRAY_WHEEL, STRAY_SDIST}

\* or any markers
AnyMarkers(p) == SeqsUpTo(Candidates(p), MaxMarkers)

ReportedBy(p, any) == IF any THEN AnyMarkers(p) ELSE Markers(p)

\* project.build() of the iteration
BuildWith(any) ==
    /\ pc = "build"
    /\ \E ruff \in [1..2 -> ReturnCodes], rc \in ReturnCodes, stderr \in ReportedBy(PROJECTS[i], any) :
       \E r \in {build(PROJECTS[i], ruff, rc, stderr, dist)} :
            /\ completed' = r.completed
            /\ scanned' = [scanned EXCEPT ![i] = r.scanned]
            /\ uv_calls' = [uv_calls EXCEPT ![i] = @ + r.uv]
            /\ classified' = r.classified
            /\ dist' = dist \cup r.written
            /\ projects_dir' = projects_dir \cup {name(PROJECTS[i])}
            /\ IF r.err = NoError
               THEN pc' = "decide" /\ err' = err
               ELSE Raised(r.err)
    /\ UNCHANGED <<BUILD, args, queried, latest_hashes, i, hashes, decisions, stdout,
                   fetchVars, namesVars>>

\* the rest of the iteration: the hashes of the two files, and for each kind
\* the file is removed or its path printed
DecideWith(digests) ==
    /\ pc = "decide"
    /\ \E hs \in [sdist : digests, wheel : digests] :
       \E verdict \in {[k \in Kinds |->
                          IF unchanged(latest_hashes[k], PROJECTS[i].np_range[1], hs[k])
                          THEN "DISCARD" ELSE "KEEP"]} :
            /\ hashes' = hs
            /\ decisions' = [decisions EXCEPT ![i] = verdict]
            /\ dist' = dist \ {dist_paths(PROJECTS[i])[k] : k \in {x \in Kinds : verdict[x] = "DISCARD"}}
            /\ stdout' = stdout \o printed(args, dist_paths(PROJECTS[i]), verdict)
    /\ i' = i + 1
    /\ pc' = IF i + 1 <= N THEN "build" ELSE "cleanup"
    /\ UNCHANGED <<BUILD, args, err, queried, latest_hashes, completed, scanned, uv_calls,
                   classified, projects_dir, fetchVars, namesVars>>

\* after the loop: the project directories are removed unless --keep, return 0
Cleanup ==
    /\ pc = "cleanup"
    /\ projects_dir' = IF "--keep" \notin args /\ projects_dir # {} THEN {} ELSE projects_dir
    /\ pc' = "done"
    /\ UNCHANGED <<BUILD, args, err, queried, latest_hashes, i, completed, scanned, uv_calls,
                   classified, hashes, decisions, dist, stdout, fetchVars, namesVars>>

InitMain ==
    /\ BUILD = Today
    /\ args \in SUBSET Flags
    /\ pc = "start"
    /\ err = NoError
    /\ queried = FALSE
    /\ latest_hashes = DistInfo(<<>>, <<>>)
    /\ i = 1
    /\ completed = NoCommand
    /\ scanned = [p \in 1..N |-> FALSE]
    /\ uv_calls = [p \in 1..N |-> 0]
    /\ classified = DistInfo(<<>>, <<>>)
    /\ hashes = DistInfo("", "")
    /\ decisions = [p \in 1..N |-> [k \in Kinds |-> "NONE"]]
    /\ dist = {}
    /\ stdout = <<>>
    /\ projects_dir = {}
    /\ FetchIdle
    /\ NamesIdle

(***************************************************************************)
(* Spec: the run of main; the index and the hashes of the built files vary,*)
(* the build tool reports its two files, or none, or fails.                *)
(***************************************************************************)
IndexVersions == {Version(1, 25)}

IndexBuilds == {Today - 1, Today}

Responses ==
    {[status |-> 500, has_files |-> FALSE, files |-> <<>>],
     [status |-> 200, has_files |-> FALSE, files |-> <<>>]}
    \cup {Ok(Render(l)) : l \in PublishedLists(IndexVersions, IndexBuilds, MaxIndex)}

Start == StartWith(Responses)

Build == BuildWith(FALSE)

Decide == DecideWith(Hashes)

Init == InitMain

Next == Start \/ Build \/ Decide \/ Cleanup

Spec == Init /\ [][Next]_vars

(***************************************************************************)
(* SpecBuild: the run of main; what the build tool reports varies, the     *)
(* index is empty.                                                         *)
(***************************************************************************)
EmptyIndex == {Ok(<<>>)}

StartEmpty == StartWith(EmptyIndex)

BuildAny == BuildWith(TRUE)

DecideOne == DecideWith({"h1"})

NextBuild == StartEmpty \/ BuildAny \/ DecideOne \/ Cleanup

SpecBuild == InitMain /\ [][NextBuild]_vars


(***************************************************************************)
(* The claims.                                                             *)
(***************************************************************************)
Decided(p) == \A k \in Kinds : decisions[p][k] # "NONE"

\* the retained entry of the index for project p and kind k has the hash h
SameAsPublished(p, k, h) ==
    /\ PROJECTS[p].np_range[1] \in DOMAIN latest_hashes[k]
    /\ latest_hashes[k][PROJECTS[p].np_range[1]][2] = h

\* the files of the decided projects: a discarded one is gone, a kept one is there
FilesFollowDecisions ==
    \A p \in 1..N : \A k \in Kinds :
        /\ decisions[p][k] = "DISCARD" => dist_paths(PROJECTS[p])[k] \notin dist
        /\ decisions[p][k] = "KEEP" => dist_paths(PROJECTS[p])[k] \in dist

\* the project decided last, whose hashes main still holds, is discarded
\* exactly when the retained entry carries the same hash
LastDecisionByHash ==
    i > 1 =>
        \A k \in Kinds :
            /\ decisions[i - 1][k] \in {"KEEP", "DISCARD"}
            /\ decisions[i - 1][k] = "DISCARD" <=> SameAsPublished(i - 1, k, hashes[k])

\* C1, as stated: without --always, an artifact is DISCARD iff the retained
\* published entry of its bracket and kind has its hash; a DISCARD file is gone
\* from the output directory, a KEEP file is still there and its path was printed.
C1_KeepIsPrinted ==
    "--always" \notin args =>
        /\ LastDecisionByHash
        /\ FilesFollowDecisions
        /\ \A p \in 1..N : \A k \in Kinds :
              decisions[p][k] = "KEEP" => dist_paths(PROJECTS[p])[k] \in Range(stdout)

\* C1, amended: without --always, an artifact is DISCARD iff the retained
\* published entry of its bracket and kind has its hash; a DISCARD file is gone
\* from the output directory, a KEEP file is still there, and its path was
\* printed exactly when --silent was not given.
C1_DiscardIffSameHash ==
    "--always" \notin args =>
        /\ LastDecisionByHash
        /\ FilesFollowDecisions
        /\ \A p \in 1..N : \A k \in Kinds :
              /\ decisions[p][k] = "KEEP" =>
                    (dist_paths(PROJECTS[p])[k] \in Range(stdout) <=> "--silent" \notin args)
              /\ decisions[p][k] = "DISCARD" => dist_paths(PROJECTS[p])[k] \notin Range(stdout)

C1_Witness ==
    /\ pc = "done"
    /\ "--always" \notin args
    /\ "--silent" \notin args
    /\ \E p \in 1..N : decisions[p] = [sdist |-> "DISCARD", wheel |-> "KEEP"]

\* C2: with --always the remote index is never queried, every decided artifact is
\* KEEP whatever its hash, and when the run over the N projects is done exactly
\* 2*N files, the sdist and the wheel of every project, are in the output directory.
C2_AlwaysKeepsAll ==
    "--always" \in args =>
        /\ ~queried
        /\ \A p \in 1..N : \A k \in Kinds : decisions[p][k] # "DISCARD"
        /\ \A p \in 1..N : p < i => Decided(p)
        /\ pc = "done" =>
              /\ \A p \in 1..N : Decided(p)
              /\ Cardinality(dist) = 2 * N
              /\ dist = UNION {{dist_paths(PROJECTS[p]).sdist, dist_paths(PROJECTS[p]).wheel} : p \in 1..N}

C2_Witness ==
    /\ pc = "done"
    /\ "--always" \in args
    /\ hashes.sdist # hashes.wheel
    /\ Cardinality(dist) = 2 * N

\* C3: when _fetch_latest_release_hashes returns, each kind's table holds exactly
\* the brackets the index lists for that kind, and the entry of a bracket is the
\* build number and the hash of the listed file of the highest build number.
C3_LatestPerBracket ==
    (fetched # NotFetched /\ fetched[1].err = NoError) =>
        \A k \in Kinds :
            LET listed == {n \in 1..Len(published) : published[n].kind = k}
            IN  /\ DOMAIN fetched[1][k] = {published[n].version : n \in listed}
                /\ \A n \in listed :
                      (\A m \in listed : published[m].version = published[n].version
                                            => published[m].build <= published[n].build)
                      => fetched[1][k][published[n].version]
                            = <<published[n].build, published[n].sha256>>

C3_Witness ==
    /\ fetched # NotFetched
    /\ fetched[1].err = NoError
    /\ \E m, n \in 1..Len(published) :
          /\ m < n
          /\ published[m].kind = published[n].kind
          /\ published[m].version = published[n].version
          /\ published[m].build > published[n].build
          /\ published[m].sha256 # published[n].sha256

\* C4: when the sdist just built has the version string of the retained published
\* sdist (same bracket, same build number) and another hash, the run is a fatal
\* error and the sdist is classified neither KEEP nor DISCARD.
C4_SameVersionOtherHashIsFatal ==
    (/\ i > 1
     /\ PROJECTS[i - 1].np_range[1] \in DOMAIN latest_hashes.sdist
     /\ latest_hashes.sdist[PROJECTS[i - 1].np_range[1]][1] = BUILD
     /\ latest_hashes.sdist[PROJECTS[i - 1].np_range[1]][2] # hashes.sdist)
    => (decisions[i - 1].sdist = "NONE" /\ pc # "done")

\* C5: when `uv build` exits non-zero for a project, build raises
\* CalledProcessError before the scan of stderr, `uv build` was invoked once for
\* it, the run has ended, no later project was built and neither the project nor
\* a later one was decided.
C5_BuildToolFailureAborts ==
    (completed.cmd = "uv build" /\ completed.returncode # 0) =>
        /\ pc = "raised"
        /\ err.type = "CalledProcessError"
        /\ ~scanned[i]
        /\ uv_calls[i] = 1
        /\ ~ENABLED NextBuild
        /\ \A p \in 1..N :
              /\ p > i => (uv_calls[p] = 0 /\ ~scanned[p] /\ name(PROJECTS[p]) \notin projects_dir)
              /\ p >= i => ~(\E k \in Kinds : decisions[p][k] # "NONE")

C5_Witness ==
    /\ completed.cmd = "uv build"
    /\ completed.returncode # 0
    /\ i = 2
    /\ Decided(1)

\* C6: when `uv build` exits with zero and stderr holds a number of success
\* markers other than two, build raises and the project is not decided; no marker
\* raises the RuntimeError, one marker (or three and more) fails the assertion on
\* the count.
C6_MarkerCountMustBeTwo ==
    (completed.cmd = "uv build" /\ completed.returncode = 0 /\ Len(completed.stderr) # 2) =>
        /\ pc = "raised"
        /\ scanned[i]
        /\ \A k \in Kinds : decisions[i][k] = "NONE"
        /\ Len(completed.stderr) = 0 => err = Raise("RuntimeError", 239)
        /\ Len(completed.stderr) >= 1 => err = Raise("AssertionError", 241)

C6_Witness ==
    /\ completed.cmd = "uv build"
    /\ completed.returncode = 0
    /\ Len(completed.stderr) = 1
    /\ pc = "raised"

\* C7: when a run without --keep has ended, by return or by an exception, no
\* generated project directory is left.
C7_ProjectsRemovedOnEveryExit ==
    (pc \in {"done", "raised"} /\ "--keep" \notin args) => projects_dir = {}

\* C8: the sdist name and the wheel name of a project match the pattern of
\* their kind, and the parse gives back the bracket, the build number and the kind.
C8_NameRoundTrip ==
    fname # NotFormatted =>
        /\ parsed.matched
        /\ parsed.kind = fname.kind
        /\ parsed.np_version = self.np_range[1]
        /\ parsed.build = BUILD

\* C9: adjacent entries of PROJECTS are contiguous and strictly ordered on their
\* dependency ranges, and the ranges are pairwise non-overlapping.
C9_MatrixContiguous ==
    /\ i \in 1..(Len(PROJECTS) + 1)
    /\ \A p \in 1..(Len(PROJECTS) - 1) :
          /\ PROJECTS[p].np_range[2] = PROJECTS[p + 1].np_range[1]
          /\ VersionLt(PROJECTS[p].np_range[1], PROJECTS[p + 1].np_range[1])
    /\ \A p, q \in 1..Len(PROJECTS) :
          p < q => ~VersionLt(PROJECTS[q].np_range[1], PROJECTS[p].np_range[2])

C9_Witness ==
    /\ pc = "done"
    /\ i = Len(PROJECTS) + 1
    /\ Len(PROJECTS) >= 2
    /\ \A p \in 1..Len(PROJECTS) : Decided(p)

\* the project of the last `uv build`
Built == IF pc \in {"decide", "raised"} THEN i ELSE i - 1

IsWheel(path) == Suffix(path) = WHL

\* C10: for two success markers the outcome of build does not depend on their
\* order: the path with the suffix .whl is taken as the wheel and the other as
\* the sdist, and the build is accepted exactly when these are the expected
\* wheel and the expected sdist; two wheels or no wheel fail.
C10_OrderIndependent ==
    (completed.cmd = "uv build" /\ completed.returncode = 0 /\ Len(completed.stderr) = 2) =>
        LET a == completed.stderr[1]
            b == completed.stderr[2]
            expect == dist_paths(PROJECTS[Built])
            accepted == pc # "raised"
        IN  /\ accepted <=> {a, b} = {expect.sdist, expect.wheel}
            /\ accepted <=>
                  build(PROJECTS[Built], <<0, 0>>, 0, <<b, a>>, {}).err = NoError
            /\ (IsWheel(a) /\ ~IsWheel(b)) => classified = DistInfo(b, a)
            /\ (IsWheel(b) /\ ~IsWheel(a)) => classified = DistInfo(a, b)
            /\ accepted <=> classified = expect
            /\ (IsWheel(a) <=> IsWheel(b)) => ~accepted

C10_Witness ==
    /\ completed.cmd = "uv build"
    /\ Len(completed.stderr) = 2
    /\ ~IsWheel(completed.stderr[1])
    /\ IsWheel(completed.stderr[2])
    /\ pc = "decide"

====
